---- MODULE Spec2Model ----
(***************************************************************************)
(* Model of the earhole key layer: HotkeyManager and PushToTalkManager     *)
(* (src/src/hotkey_manager.py), the threads on which their callbacks are   *)
(* dispatched, and the state the callbacks publish.                        *)
(***************************************************************************)
EXTENDS Integers, Sequences, FiniteSets, TLC

\* ------------------------------------------------------------------------
\* Bounds
\* ------------------------------------------------------------------------

\* at most this many callback threads are spawned in one behaviour
MaxThreads == 3

\* at most this many events are recorded in a trace of key events
MaxTrace == 5

\* at most this many callbacks are waiting in the Tk loop
MaxAfter == 2

\* ------------------------------------------------------------------------
\* Key universe
\* ------------------------------------------------------------------------

None == "None"

\* members of pynput's keyboard.Key enumeration used by the program
EnumKeys ==
    {"ctrl_l", "ctrl_r", "shift", "shift_r", "alt_l", "alt_r", "alt_gr",
     "space", "esc", "f9"}

\* pynput KeyCode objects: the only raw keys that carry a vk attribute
KeyCodes == {"vk165", "a"}

Keys == EnumKeys \cup KeyCodes

\* hasattr(key, 'vk')
HasVk(key) == key \in KeyCodes

\* key.vk
Vk(key) == IF key = "vk165" THEN 165 ELSE 65

\* VK_RMENU
VK_RMENU == 165

\* the raw encodings under which the right-alt key is reported
RightAltCodes == {"alt_r", "alt_gr", "vk165"}

\* ------------------------------------------------------------------------
\* HotkeyManager: tables and pure functions
\* ------------------------------------------------------------------------

ActionNames == {"toggle_recording", "cancel_recording"}

\* self._hotkeys, in insertion order (the order dict.items() iterates in)
hotkeys ==
    << [combo |-> {"ctrl_l", "shift", "space"}, action |-> "toggle_recording"],
       [combo |-> {"ctrl_r", "shift", "space"}, action |-> "toggle_recording"],
       [combo |-> {"esc"},                      action |-> "cancel_recording"] >>

\* key_map of _normalize_key
key_map ==
    [k \in {"ctrl_r", "alt_r", "shift_r"} |->
        CASE k = "ctrl_r"  -> "ctrl_l"
          [] k = "alt_r"   -> "alt_l"
          [] k = "shift_r" -> "shift"]

\* a normalizer that leaves right alt alone
normalize_key_noalt(key) ==
    IF key \in DOMAIN key_map /\ key # "alt_r" THEN key_map[key] ELSE key

\* a normalizer that leaves right shift alone
normalize_key_noshift(key) ==
    IF key \in DOMAIN key_map /\ key # "shift_r" THEN key_map[key] ELSE key

\* key_map.get(key, key)
normalize_key(key) ==
    IF key \in DOMAIN key_map THEN key_map[key] ELSE key

\* required <= self._current_keys, on both branches of the len() test
keys_match(required, current_keys) ==
    IF Cardinality(required) = 1
    THEN required \subseteq current_keys
    ELSE required \subseteq current_keys

Min(S) == CHOOSE x \in S : \A y \in S : x <= y

\* a dispatch loop that walks the combos in reverse registration order
dispatch_last(current_keys, callbacks) ==
    LET matching == {i \in 1..Len(hotkeys) :
                        keys_match(hotkeys[i].combo, current_keys)}
    IN  IF matching = {} THEN << >>
        ELSE LET last == CHOOSE i \in matching : \A j \in matching : j <= i
                 action == hotkeys[last].action
             IN  IF action \in callbacks THEN << action >> ELSE << >>

\* a dispatch loop without the break: every matching combo fires
dispatch_all(current_keys, callbacks) ==
    LET hit == SelectSeq(hotkeys, LAMBDA h :
                   keys_match(h.combo, current_keys) /\ h.action \in callbacks)
    IN  [i \in 1..Len(hit) |-> hit[i].action]

\* the for loop of _on_press: the targets of the threads it starts.  The
\* loop stops at the first combo that matches, whether or not a callback is
\* registered for its action.
dispatch(current_keys, callbacks) ==
    LET matching == {i \in 1..Len(hotkeys) :
                        keys_match(hotkeys[i].combo, current_keys)}
    IN  IF matching = {} THEN << >>
        ELSE LET action == hotkeys[Min(matching)].action
             IN  IF action \in callbacks THEN << action >> ELSE << >>

\* ------------------------------------------------------------------------
\* Threads: threading.Thread(target=..., daemon=True).start()
\* ------------------------------------------------------------------------

\* the threads started by `targets`, appended in start order
Spawn(ths, targets) ==
    ths \o [i \in 1..Len(targets) |-> [target |-> targets[i], st |-> "spawned"]]

\* number of threads started so far for a callback
CountOf(ths, target) ==
    Cardinality({i \in 1..Len(ths) : ths[i].target = target})

\* the targets of the threads a step has added
NewTargets(old, new) ==
    [i \in 1..(Len(new) - Len(old)) |-> new[Len(old) + i].target]

\* ------------------------------------------------------------------------
\* State
\* ------------------------------------------------------------------------

VARIABLES
    hk_listener,        \* HotkeyManager._listener: None or "listener"
    hk_current_keys,    \* HotkeyManager._current_keys
    hk_callbacks,       \* keys of HotkeyManager._callbacks
    hk_running,         \* HotkeyManager._running
    hk_last,            \* the last key event HotkeyManager handled
    hk_tracing,         \* whether the key events are recorded in hk_trace
    hk_trace,           \* the key events handled since construction
    hk2,                \* a second HotkeyManager that is fed hk_trace
    trigger_key,        \* PushToTalkManager.trigger_key
    ptt_listener,       \* PushToTalkManager._listener
    ptt_on_start,       \* PushToTalkManager._on_start: None or a callable
    ptt_on_stop,        \* PushToTalkManager._on_stop
    ptt_is_pressed,     \* PushToTalkManager._is_pressed
    ptt_running,        \* PushToTalkManager._running
    ptt_last,           \* the last key event PushToTalkManager handled
    ptt_missed,         \* a trigger edge found no callback registered
    threads,            \* the callback threads started so far
    ctl_state,          \* the application's RecordingState
    tray_icon,          \* TrayIcon._icon: None or "icon"
    tray_state,         \* TrayIcon._state
    tray_image,         \* the image the tray icon shows (TrayIcon._icon.icon)
    tray_menu,          \* the status line of the tray menu
    tray_thread,        \* TrayIcon._thread: None or "thread"
    tray_redraw,        \* the last set_state replaced the icon image and menu
    win_root,           \* StatusWindow._root: None or "tk"
    win_canvas,         \* StatusWindow._canvas: None or "canvas"
    win_state,          \* StatusWindow._state
    win_after,          \* callbacks scheduled on the Tk loop with after(0, ..)
    win_visual,         \* what the canvas shows: a state or a notification
    win_drawn,          \* the callback that drew what the canvas shows
    win_thread,         \* StatusWindow._thread: None or "thread"
    win_ready,          \* StatusWindow._ready: whether the event is set
    win_start_pc,       \* where the caller of start() is
    win_ui_pc,          \* where the thread running _run_loop is
    win_timers,         \* the restore() callbacks waiting for their delay
    win_tk_local,       \* the state restore() has read and not yet passed on
    win_callers         \* the threads that are inside set_state

hk_vars  == << hk_listener, hk_current_keys, hk_callbacks, hk_running,
               hk_last, hk_tracing, hk_trace, hk2 >>

\* hk_last and ptt_last before any key event
NoHotkeyEvent == [kind |-> "none", key |-> None, norm |-> None, fired |-> << >>]
NoTriggerEvent == [kind |-> "none", key |-> None, was_pressed |-> FALSE]
ptt_vars == << trigger_key, ptt_listener, ptt_on_start, ptt_on_stop,
               ptt_is_pressed, ptt_running, ptt_last, ptt_missed >>
tray_vars == << tray_icon, tray_state, tray_image, tray_menu, tray_thread,
                tray_redraw >>
win_start_vars == << win_thread, win_ready, win_start_pc, win_ui_pc >>
win_vars == << win_root, win_canvas, win_state, win_after, win_visual,
               win_drawn,
               win_start_vars, win_timers, win_tk_local, win_callers >>
ui_vars  == << ctl_state, tray_vars, win_vars >>
vars     == << hk_vars, ptt_vars, threads, ui_vars >>

\* ------------------------------------------------------------------------
\* HotkeyManager
\* ------------------------------------------------------------------------

\* the second HotkeyManager after __init__: its _current_keys, the actions
\* it has dispatched, and how many events of hk_trace it has been fed
HK2_init == [keys |-> {}, dispatched |-> << >>, pos |-> 0]

\* HotkeyManager.__init__
HK_init ==
    /\ hk_listener = None
    /\ hk_current_keys = {}
    /\ hk_callbacks = {}
    /\ hk_running = FALSE
    /\ hk_last = NoHotkeyEvent
    /\ hk_trace = << >>
    /\ hk2 = HK2_init

\* register_callback(action, callback)
HK_register_callback(action) ==
    /\ hk_callbacks' = hk_callbacks \cup {action}
    /\ UNCHANGED << hk_listener, hk_current_keys, hk_running, hk_last,
                    hk_tracing, hk2, hk_trace, ptt_vars, threads, ui_vars >>

\* _on_press(key), called by the listener for a key-down
HK_on_press(key) ==
    LET normalized == normalize_key(key)
        keys1      == hk_current_keys \cup {normalized}
        fired      == dispatch(keys1, hk_callbacks)
    IN  /\ hk_listener # None
        /\ Len(threads) < MaxThreads
        /\ hk_current_keys' = keys1
        /\ threads' = Spawn(threads, fired)
        /\ hk_last' = [kind |-> "down", key |-> key, norm |-> normalized,
                       fired |-> fired]
        /\ hk_trace' = IF ~hk_tracing THEN hk_trace
                       ELSE Append(hk_trace, << "down", key >>)
        /\ UNCHANGED << hk_listener, hk_callbacks, hk_running, hk_tracing, hk2,
                        ptt_vars, ui_vars >>

\* a key-up handler that discards the raw key instead of the normalized one
HK_on_release_raw(key) ==
    LET normalized == normalize_key(key)
    IN  /\ hk_listener # None
        /\ hk_current_keys' = hk_current_keys \ {key}
        /\ hk_last' = [kind |-> "up", key |-> key, norm |-> normalized,
                       fired |-> << >>]
        /\ hk_trace' = IF ~hk_tracing THEN hk_trace
                       ELSE Append(hk_trace, << "up", key >>)
        /\ UNCHANGED << hk_listener, hk_callbacks, hk_running, hk_tracing, hk2,
                        ptt_vars, threads, ui_vars >>

\* _on_release(key), called by the listener for a key-up
HK_on_release(key) ==
    LET normalized == normalize_key(key)
    IN  /\ hk_listener # None
        /\ hk_current_keys' = hk_current_keys \ {normalized}
        /\ hk_last' = [kind |-> "up", key |-> key, norm |-> normalized,
                       fired |-> << >>]
        /\ hk_trace' = IF ~hk_tracing THEN hk_trace
                       ELSE Append(hk_trace, << "up", key >>)
        /\ UNCHANGED << hk_listener, hk_callbacks, hk_running, hk_tracing, hk2,
                        ptt_vars, threads, ui_vars >>

\* start()
HK_start ==
    /\ IF hk_running
       THEN UNCHANGED << hk_running, hk_listener >>
       ELSE /\ hk_running' = TRUE
            /\ hk_listener' = "listener"
    /\ UNCHANGED << hk_current_keys, hk_callbacks, hk_last, hk_tracing, hk2,
                    hk_trace, ptt_vars, threads, ui_vars >>

\* a stop() that forgets to clear _current_keys
HK_stop_noclear ==
    /\ hk_running' = FALSE
    /\ hk_listener' = None
    /\ hk_trace' = IF ~hk_tracing THEN hk_trace
                   ELSE Append(hk_trace, << "stop", None >>)
    /\ UNCHANGED << hk_current_keys, hk_callbacks, hk_last, hk_tracing, hk2,
                    ptt_vars, threads, ui_vars >>

\* stop()
HK_stop ==
    /\ hk_running' = FALSE
    /\ hk_listener' = None
    /\ hk_current_keys' = {}
    /\ hk_trace' = IF ~hk_tracing THEN hk_trace
                   ELSE Append(hk_trace, << "stop", None >>)
    /\ UNCHANGED << hk_callbacks, hk_last, hk_tracing, hk2, ptt_vars,
                    threads, ui_vars >>

\* the second HotkeyManager, holding the same callbacks, is fed the next
\* event of hk_trace: its _on_press, _on_release or stop() runs
HK2_feed ==
    /\ hk2.pos < Len(hk_trace)
    /\ LET event == hk_trace[hk2.pos + 1]
           normalized == normalize_key(event[2])
           keys1 == hk2.keys \cup {normalized}
       IN  hk2' = [pos |-> hk2.pos + 1,
                   keys |-> CASE event[1] = "down" -> keys1
                              [] event[1] = "up"   -> hk2.keys \ {normalized}
                              [] OTHER             -> {},
                   dispatched |->
                       IF event[1] = "down"
                       THEN hk2.dispatched \o dispatch(keys1, hk_callbacks)
                       ELSE hk2.dispatched]
    /\ UNCHANGED << hk_listener, hk_current_keys, hk_callbacks, hk_running,
                    hk_last, hk_tracing, hk_trace, ptt_vars, threads,
                    ui_vars >>

\* ------------------------------------------------------------------------
\* PushToTalkManager
\* ------------------------------------------------------------------------

\* the trigger keys the manager is constructed with: the default, and the
\* right-alt key the application announces
TriggerKeys == {"f9", "alt_r"}

\* a trigger test that takes the right-alt encodings whatever the trigger is
is_trigger_key_any_alt(key) ==
    IF key = trigger_key THEN TRUE
    ELSE IF key = "alt_gr" THEN TRUE
    ELSE IF HasVk(key) /\ Vk(key) = VK_RMENU THEN TRUE
    ELSE FALSE

\* _is_trigger_key(key)
is_trigger_key(key) ==
    IF key = trigger_key THEN TRUE
    ELSE IF trigger_key = "alt_r"
         THEN IF key = "alt_gr" THEN TRUE
              ELSE IF HasVk(key) /\ Vk(key) = VK_RMENU THEN TRUE
              ELSE FALSE
         ELSE FALSE

\* PushToTalkManager.__init__(trigger_key)
PTT_init(trigger) ==
    /\ trigger_key = trigger
    /\ ptt_listener = None
    /\ ptt_on_start = None
    /\ ptt_on_stop = None
    /\ ptt_is_pressed = FALSE
    /\ ptt_running = FALSE
    /\ ptt_last = NoTriggerEvent
    /\ ptt_missed = FALSE

\* set_callbacks(on_start, on_stop)
PTT_set_callbacks ==
    /\ ptt_on_start' = "on_start"
    /\ ptt_on_stop' = "on_stop"
    /\ UNCHANGED << trigger_key, ptt_listener, ptt_is_pressed, ptt_running,
                    ptt_last, ptt_missed, hk_vars, threads, ui_vars >>

\* a key-down handler that does not look at _is_pressed
PTT_press_effect_repeat(key) ==
    IF is_trigger_key(key)
    THEN /\ ptt_is_pressed' = TRUE
         /\ threads' = IF ptt_on_start # None
                       THEN Spawn(threads, << ptt_on_start >>) ELSE threads
         /\ ptt_missed' = (ptt_missed \/ ptt_on_start = None)
    ELSE UNCHANGED << ptt_is_pressed, threads, ptt_missed >>

\* the body of _on_press(key)
PTT_press_effect(key) ==
    IF is_trigger_key(key) /\ ~ptt_is_pressed
    THEN /\ ptt_is_pressed' = TRUE
         /\ threads' = IF ptt_on_start # None
                       THEN Spawn(threads, << ptt_on_start >>) ELSE threads
         /\ ptt_missed' = (ptt_missed \/ ptt_on_start = None)
    ELSE UNCHANGED << ptt_is_pressed, threads, ptt_missed >>

\* a key-down handler that calls on_start itself instead of handing it to a
\* thread: the listener is stuck in it until every callback has returned
PTT_on_press_inline(key) ==
    /\ ptt_listener # None
    /\ Len(threads) < MaxThreads
    /\ \A i \in 1..Len(threads) : threads[i].st = "done"
    /\ PTT_press_effect(key)
    /\ ptt_last' = [kind |-> "down", key |-> key,
                    was_pressed |-> ptt_is_pressed]
    /\ UNCHANGED << trigger_key, ptt_listener, ptt_on_start, ptt_on_stop,
                    ptt_running, hk_vars, ui_vars >>

\* _on_press(key), called by the listener for a key-down
PTT_on_press(key) ==
    /\ ptt_listener # None
    /\ Len(threads) < MaxThreads
    /\ PTT_press_effect(key)
    /\ ptt_last' = [kind |-> "down", key |-> key,
                    was_pressed |-> ptt_is_pressed]
    /\ UNCHANGED << trigger_key, ptt_listener, ptt_on_start, ptt_on_stop,
                    ptt_running, hk_vars, ui_vars >>

\* a key-up handler that does not look at _is_pressed
PTT_release_effect_always(key) ==
    IF is_trigger_key(key)
    THEN /\ ptt_is_pressed' = FALSE
         /\ threads' = IF ptt_on_stop # None
                       THEN Spawn(threads, << ptt_on_stop >>) ELSE threads
         /\ ptt_missed' = (ptt_missed \/ ptt_on_stop = None)
    ELSE UNCHANGED << ptt_is_pressed, threads, ptt_missed >>

\* the body of _on_release(key)
PTT_release_effect(key) ==
    IF is_trigger_key(key) /\ ptt_is_pressed
    THEN /\ ptt_is_pressed' = FALSE
         /\ threads' = IF ptt_on_stop # None
                       THEN Spawn(threads, << ptt_on_stop >>) ELSE threads
         /\ ptt_missed' = (ptt_missed \/ ptt_on_stop = None)
    ELSE UNCHANGED << ptt_is_pressed, threads, ptt_missed >>

\* _on_release(key), called by the listener for a key-up
PTT_on_release(key) ==
    /\ ptt_listener # None
    /\ Len(threads) < MaxThreads
    /\ PTT_release_effect(key)
    /\ ptt_last' = [kind |-> "up", key |-> key,
                    was_pressed |-> ptt_is_pressed]
    /\ UNCHANGED << trigger_key, ptt_listener, ptt_on_start, ptt_on_stop,
                    ptt_running, hk_vars, ui_vars >>

\* start()
PTT_start ==
    /\ IF ptt_running
       THEN UNCHANGED << ptt_running, ptt_listener >>
       ELSE /\ ptt_running' = TRUE
            /\ ptt_listener' = "listener"
    /\ UNCHANGED << trigger_key, ptt_on_start, ptt_on_stop, ptt_is_pressed,
                    ptt_last, ptt_missed, hk_vars, threads, ui_vars >>

\* stop()
PTT_stop ==
    /\ ptt_running' = FALSE
    /\ ptt_listener' = None
    /\ UNCHANGED << trigger_key, ptt_on_start, ptt_on_stop, ptt_is_pressed,
                    ptt_last, ptt_missed, hk_vars, threads, ui_vars >>

\* ------------------------------------------------------------------------
\* Callback threads.  Thread.start() returns once the thread exists; when
\* the target begins to run, relative to other threads, is the scheduler's
\* choice.
\* ------------------------------------------------------------------------

\* the scheduler lets thread i begin its target
Thread_run(i) ==
    /\ i \in 1..Len(threads)
    /\ threads[i].st = "spawned"
    /\ threads' = [threads EXCEPT ![i].st = "running"]
    /\ UNCHANGED << hk_vars, ptt_vars, ui_vars >>

\* the target of thread i returns
Thread_return(i) ==
    /\ i \in 1..Len(threads)
    /\ threads[i].st = "running"
    /\ threads' = [threads EXCEPT ![i].st = "done"]
    /\ UNCHANGED << hk_vars, ptt_vars, ui_vars >>

\* ------------------------------------------------------------------------
\* Presentation surfaces: TrayIcon and StatusWindow
\* ------------------------------------------------------------------------

STATE_IDLE == "idle"
STATE_RECORDING == "recording"
STATE_PROCESSING == "processing"

States == {STATE_IDLE, STATE_RECORDING, STATE_PROCESSING}

\* TrayIcon._icons: the image drawn for each state, named by its colour
tray_icons ==
    [s \in States |->
        CASE s = STATE_IDLE       -> "#4CAF50"
          [] s = STATE_RECORDING  -> "#F44336"
          [] s = STATE_PROCESSING -> "#FFC107"]

\* TrayIcon._get_status_text for a cached state
get_status_text(state) ==
    CASE state = STATE_IDLE       -> "Ready"
      [] state = STATE_RECORDING  -> "Recording..."
      [] state = STATE_PROCESSING -> "Processing..."
      [] OTHER                    -> "Unknown"

\* TrayIcon.__init__
Tray_init ==
    /\ tray_icon = None
    /\ tray_state = STATE_IDLE
    /\ tray_image = None
    /\ tray_menu = None
    /\ tray_thread = None
    /\ tray_redraw = FALSE

\* TrayIcon.set_state(state)
Tray_set_state(state) ==
    IF state \notin DOMAIN tray_icons
    THEN UNCHANGED tray_vars
    ELSE /\ tray_state' = state
         /\ IF tray_icon # None
            THEN /\ tray_image' = tray_icons[state]
                 /\ tray_menu' = get_status_text(state)
            ELSE UNCHANGED << tray_image, tray_menu >>
         /\ tray_redraw' = (tray_icon # None)
         /\ UNCHANGED << tray_icon, tray_thread >>

\* TrayIcon.start()
Tray_start ==
    IF tray_icon # None
    THEN UNCHANGED tray_vars
    ELSE /\ tray_icon' = "icon"
         /\ tray_image' = tray_icons[STATE_IDLE]
         /\ tray_menu' = get_status_text(tray_state)
         /\ tray_thread' = "thread"
         /\ UNCHANGED << tray_state, tray_redraw >>

\* TrayIcon.stop()
Tray_stop ==
    IF tray_icon # None
    THEN /\ tray_icon' = None
         /\ tray_image' = None
         /\ tray_menu' = None
         /\ UNCHANGED << tray_state, tray_thread, tray_redraw >>
    ELSE UNCHANGED tray_vars

\* what a caller of a TrayIcon method leaves alone
Tray_frame == UNCHANGED << hk_vars, ptt_vars, threads, ctl_state, win_vars >>

\* a thread calls TrayIcon.set_state(state)
Tray_set_state_call(state) == Tray_set_state(state) /\ Tray_frame

\* a thread calls TrayIcon.start()
Tray_start_call == Tray_start /\ Tray_frame

\* a thread calls TrayIcon.stop()
Tray_stop_call == Tray_stop /\ Tray_frame

\* the threads that call StatusWindow.set_state concurrently
Callers == {1, 2}

\* a caller that is not inside set_state
NotCalling == [pc |-> "idle", state |-> None]

\* what StatusWindow shows while a notification is up
NOTIFICATION == "notification"

\* a callback handed to the Tk loop: update() of set_state(state), show()
\* of notify, or restore() of show().  by says who scheduled it, cached is
\* the value of _state when it was scheduled, and notified the value of
\* _state when the notify it descends from was called.
Callback(fn, state, by, cached, notified) ==
    [fn |-> fn, state |-> state, by |-> by, cached |-> cached,
     notified |-> notified]

\* nothing has been drawn
NotDrawn == Callback("none", None, None, None, None)

\* StatusWindow.__init__
Win_init ==
    /\ win_root = None
    /\ win_canvas = None
    /\ win_state = STATE_IDLE
    /\ win_after = << >>
    /\ win_visual = None
    /\ win_drawn = NotDrawn
    /\ win_thread = None
    /\ win_ready = FALSE
    /\ win_start_pc = "idle"
    /\ win_ui_pc = "none"
    /\ win_timers = << >>
    /\ win_tk_local = << >>
    /\ win_callers = [c \in Callers |-> NotCalling]

\* the two statements of set_state(state): the write of _state, and the
\* after(0, update) that follows when the window exists
set_state_body(state, by, cached, notified) ==
    /\ win_state' = state
    /\ win_after' = IF win_root = None THEN win_after
                    ELSE Append(win_after,
                                Callback("update", state, by, cached, notified))

\* StatusWindow.set_state(state): caches the state and, when the window
\* exists, schedules update() on the Tk loop
Win_set_state(state) ==
    /\ set_state_body(state, "set_state", state, None)
    /\ UNCHANGED << win_root, win_canvas, win_visual, win_drawn,
                    win_start_vars, win_timers, win_tk_local, win_callers >>

\* StatusWindow.notify(title, message)
Win_notify ==
    /\ win_after' = IF win_root = None \/ win_canvas = None THEN win_after
                    ELSE Append(win_after,
                                Callback("show", win_state, "notify",
                                         win_state, win_state))
    /\ UNCHANGED << win_root, win_canvas, win_state, win_visual, win_drawn,
                    win_start_vars, win_timers, win_tk_local, win_callers >>

\* what a step of the window leaves alone
Win_frame == UNCHANGED << hk_vars, ptt_vars, threads, ctl_state, tray_vars >>

\* Event.wait that never times out
ready_wait_forever(timeout) == win_ready

\* self._ready.wait(timeout=5) returns when the event is set or the
\* timeout has elapsed
ready_wait(timeout) == win_ready \/ timeout

\* StatusWindow.start(), up to the wait for _ready
Win_start ==
    /\ win_start_pc # "waiting"
    /\ IF win_thread # None
       THEN /\ win_start_pc' = "returned at once"
            /\ UNCHANGED << win_root, win_canvas, win_state, win_after,
                            win_visual, win_drawn, win_thread, win_ready,
                            win_ui_pc, win_timers, win_tk_local,
                            win_callers >>
       ELSE /\ win_thread' = "thread"
            /\ win_ui_pc' = "spawned"
            /\ win_start_pc' = "waiting"
            /\ UNCHANGED << win_root, win_canvas, win_state, win_after,
                            win_visual, win_drawn, win_ready, win_timers,
                            win_tk_local, win_callers >>

\* StatusWindow.start() returns from the wait for _ready
Win_start_return ==
    /\ win_start_pc = "waiting"
    /\ \E timeout \in BOOLEAN : ready_wait(timeout)
    /\ win_start_pc' = IF win_ready THEN "ready" ELSE "timed out"
    /\ UNCHANGED << win_root, win_canvas, win_state, win_after, win_visual,
                    win_drawn, win_thread, win_ready, win_ui_pc, win_timers,
                    win_tk_local, win_callers >>
    /\ Win_frame

\* _create_window: tk.Tk() succeeds
Win_create_root ==
    /\ win_ui_pc = "spawned"
    /\ win_root' = "tk"
    /\ win_ui_pc' = "root"
    /\ UNCHANGED << win_canvas, win_state, win_after, win_visual, win_drawn,
                    win_thread, win_ready, win_start_pc, win_timers,
                    win_tk_local, win_callers >>
    /\ Win_frame

\* _create_window: tk.Tk() raises and the thread ends
Win_create_fail ==
    /\ win_ui_pc = "spawned"
    /\ win_ui_pc' = "dead"
    /\ UNCHANGED << win_root, win_canvas, win_state, win_after, win_visual,
                    win_drawn, win_thread, win_ready, win_start_pc,
                    win_timers, win_tk_local, win_callers >>
    /\ Win_frame

\* _create_window: the canvas is created and _setup_idle_state() draws
Win_create_canvas ==
    /\ win_ui_pc = "root"
    /\ win_canvas' = "canvas"
    /\ win_visual' = STATE_IDLE
    /\ win_drawn' = Callback("_setup_idle_state", STATE_IDLE,
                             "_create_window", win_state, None)
    /\ win_ui_pc' = "canvas"
    /\ UNCHANGED << win_root, win_state, win_after, win_thread, win_ready,
                    win_start_pc, win_timers, win_tk_local, win_callers >>
    /\ Win_frame

\* _create_window: _ready is set; _run_loop enters mainloop()
Win_create_ready ==
    /\ win_ui_pc = "canvas"
    /\ win_ready' = TRUE
    /\ win_ui_pc' = "loop"
    /\ UNCHANGED << win_root, win_canvas, win_state, win_after, win_visual,
                    win_drawn, win_thread, win_start_pc, win_timers,
                    win_tk_local, win_callers >>
    /\ Win_frame

\* the Tk loop is free to run the oldest callback, and it is an fn
TkRuns(fn) ==
    /\ win_ui_pc = "loop"
    /\ win_tk_local = << >>
    /\ win_after # << >>
    /\ Head(win_after).fn = fn

\* the Tk loop runs the oldest scheduled callback: update() of set_state
Win_update ==
    /\ TkRuns("update")
    /\ win_after' = Tail(win_after)
    /\ IF win_canvas # None /\ Head(win_after).state \in States
       THEN /\ win_visual' = Head(win_after).state
            /\ win_drawn' = Head(win_after)
       ELSE UNCHANGED << win_visual, win_drawn >>
    /\ UNCHANGED << win_root, win_canvas, win_state, win_start_vars,
                    win_timers, win_tk_local, win_callers >>
    /\ Win_frame

\* the Tk loop runs show() of notify: the notification is drawn and
\* restore() is scheduled with after(2000, restore)
Win_show ==
    /\ TkRuns("show")
    /\ win_after' = Tail(win_after)
    /\ win_visual' = NOTIFICATION
    /\ win_drawn' = Head(win_after)
    /\ win_timers' = Append(win_timers, Head(win_after))
    /\ UNCHANGED << win_root, win_canvas, win_state, win_start_vars,
                    win_tk_local, win_callers >>
    /\ Win_frame

\* the delay of the oldest restore() has elapsed: it is due on the Tk loop
Win_delay_elapsed ==
    /\ win_timers # << >>
    /\ win_timers' = Tail(win_timers)
    /\ win_after' = Append(win_after,
                           [Head(win_timers) EXCEPT !.fn = "restore"])
    /\ UNCHANGED << win_root, win_canvas, win_state, win_visual, win_drawn,
                    win_start_vars, win_tk_local, win_callers >>
    /\ Win_frame

\* a restore() that passes on the state cached when notify was called
restore_arg_at_notify(callback) == callback.notified

\* the argument restore() passes to set_state: self._state, read when
\* restore() runs
restore_arg(callback) == win_state

\* the Tk loop runs restore(): it reads self._state ..
Win_restore_read ==
    /\ TkRuns("restore")
    /\ win_after' = Tail(win_after)
    /\ win_tk_local' = << [state    |-> restore_arg(Head(win_after)),
                           cached   |-> win_state,
                           notified |-> Head(win_after).notified] >>
    /\ UNCHANGED << win_root, win_canvas, win_state, win_visual, win_drawn,
                    win_start_vars, win_timers, win_callers >>
    /\ Win_frame

\* .. and calls set_state with it
Win_restore_set_state ==
    /\ win_tk_local # << >>
    /\ set_state_body(win_tk_local[1].state, "restore",
                      win_tk_local[1].cached, win_tk_local[1].notified)
    /\ win_tk_local' = << >>
    /\ UNCHANGED << win_root, win_canvas, win_visual, win_drawn,
                    win_start_vars, win_timers, win_callers >>
    /\ Win_frame

\* a thread calls StatusWindow.set_state(state) and nothing runs meanwhile
Win_set_state_call(state) == Win_set_state(state) /\ Win_frame

\* a thread calls StatusWindow.notify
Win_notify_call == Win_notify /\ Win_frame

\* a thread calls StatusWindow.start()
Win_start_call == Win_start /\ Win_frame

\* StatusWindow.stop(): the destruction of the root is handed to the Tk
\* loop; on a window whose loop has ended the call raises
Win_stop ==
    /\ win_after' = IF win_root = None \/ win_ui_pc = "exited" THEN win_after
                    ELSE Append(win_after,
                                Callback("destroy", win_state, "stop",
                                         win_state, None))
    /\ UNCHANGED << win_root, win_canvas, win_state, win_visual, win_drawn,
                    win_start_vars, win_timers, win_tk_local, win_callers >>

\* a thread calls StatusWindow.stop()
Win_stop_call == Win_stop /\ Win_frame

\* the Tk loop runs root.destroy(): the window is gone with everything
\* scheduled on it, mainloop() returns and the thread of _run_loop ends;
\* _root, _canvas and _thread keep their values
Win_destroy ==
    /\ TkRuns("destroy")
    /\ win_after' = << >>
    /\ win_timers' = << >>
    /\ win_visual' = None
    /\ win_drawn' = Head(win_after)
    /\ win_ui_pc' = "exited"
    /\ UNCHANGED << win_root, win_canvas, win_state, win_thread, win_ready,
                    win_start_pc, win_tk_local, win_callers >>
    /\ Win_frame

\* caller c enters set_state(state) and writes _state; it is done when the
\* window does not exist
Win_set_state_write(c, state) ==
    /\ win_callers[c].pc = "idle"
    /\ win_state' = state
    /\ win_callers' = IF win_root = None THEN win_callers
                      ELSE [win_callers EXCEPT
                               ![c] = [pc |-> "written", state |-> state]]
    /\ UNCHANGED << win_root, win_canvas, win_after, win_visual, win_drawn,
                    win_start_vars, win_timers, win_tk_local >>
    /\ Win_frame

\* caller c, having written _state, calls after(0, update) and returns
Win_set_state_schedule(c) ==
    /\ win_callers[c].pc = "written"
    /\ win_after' = Append(win_after,
                           Callback("update", win_callers[c].state,
                                    "set_state", win_callers[c].state, None))
    /\ win_callers' = [win_callers EXCEPT ![c] = NotCalling]
    /\ UNCHANGED << win_root, win_canvas, win_state, win_visual, win_drawn,
                    win_start_vars, win_timers, win_tk_local >>
    /\ Win_frame

\* ------------------------------------------------------------------------
\* The application that wires the managers to the surfaces (src/app.py, the
\* module main.py imports).  Its callbacks run on the threads the managers
\* start; what they do is the state machine of the specification, section
\* 4.3: a transition is taken only from its source state and is broadcast
\* to both surfaces.
\* ------------------------------------------------------------------------

\* broadcast of a state to every surface
App_broadcast(state) ==
    /\ Tray_set_state(state)
    /\ Win_set_state(state)

\* one row of the transition table
App_transition(from, to) ==
    IF ctl_state = from
    THEN /\ ctl_state' = to
         /\ App_broadcast(to)
    ELSE UNCHANGED ui_vars

\* the callback registered for a target
App_callback_body(target) ==
    CASE target = "on_start"         -> App_transition(STATE_IDLE, STATE_RECORDING)
      [] target = "on_stop"          -> App_transition(STATE_RECORDING, STATE_PROCESSING)
      [] target = "cancel_recording" -> App_transition(STATE_RECORDING, STATE_IDLE)
      [] OTHER                       -> UNCHANGED ui_vars

\* the target of thread i runs to its end
App_callback(i) ==
    /\ i \in 1..Len(threads)
    /\ threads[i].st = "running"
    /\ threads' = [threads EXCEPT ![i].st = "done"]
    /\ App_callback_body(threads[i].target)
    /\ UNCHANGED << hk_vars, ptt_vars >>

\* the transcription pipeline reports completion or failure
App_pipeline_done ==
    /\ ctl_state = STATE_PROCESSING
    /\ App_transition(STATE_PROCESSING, STATE_IDLE)
    /\ UNCHANGED << hk_vars, ptt_vars, threads >>

\* the surfaces and the application state after construction
UI_init ==
    /\ ctl_state = STATE_IDLE
    /\ Tray_init
    /\ Win_init

\* ------------------------------------------------------------------------
\* Specifications
\* ------------------------------------------------------------------------

\* the keys HotkeyManager is fed: every raw key its tables mention, the
\* right-alt encodings, and a key no combo contains
HotkeyKeys == Keys \ {"f9"}

\* a HotkeyManager after construction (beside it, a PushToTalkManager that
\* is never started)
InitHotkey ==
    /\ HK_init
    /\ hk_tracing = FALSE
    /\ PTT_init("f9")
    /\ threads = << >>
    /\ UI_init

\* HotkeyManager under every sequence of calls and key events
NextHotkey ==
    \/ \E action \in ActionNames : HK_register_callback(action)
    \/ \E key \in HotkeyKeys : HK_on_press(key)
    \/ \E key \in HotkeyKeys : HK_on_release(key)
    \/ HK_start
    \/ HK_stop

SpecHotkey == InitHotkey /\ [][NextHotkey]_vars

\* a PushToTalkManager after construction with either trigger (beside it, a
\* HotkeyManager that is never started)
InitPushToTalk ==
    /\ HK_init
    /\ hk_tracing = FALSE
    /\ \E trigger \in TriggerKeys : PTT_init(trigger)
    /\ threads = << >>
    /\ UI_init

\* PushToTalkManager under every sequence of calls and key events, with
\* the threads it starts
NextPushToTalk ==
    \/ PTT_set_callbacks
    \/ \E key \in Keys : PTT_on_press(key)
    \/ \E key \in Keys : PTT_on_release(key)
    \/ PTT_start
    \/ PTT_stop
    \/ \E i \in 1..MaxThreads : Thread_run(i)
    \/ \E i \in 1..MaxThreads : Thread_return(i)

SpecPushToTalk == InitPushToTalk /\ [][NextPushToTalk]_vars

\* the running application: both managers configured and listening, the
\* tray icon shown, the status window created and showing idle
InitApp ==
    /\ hk_listener = "listener"
    /\ hk_running = TRUE
    /\ hk_current_keys = {}
    /\ hk_callbacks = ActionNames
    /\ hk_last = NoHotkeyEvent
    /\ hk_tracing = FALSE
    /\ hk_trace = << >>
    /\ hk2 = HK2_init
    /\ trigger_key \in TriggerKeys
    /\ ptt_listener = "listener"
    /\ ptt_running = TRUE
    /\ ptt_on_start = "on_start"
    /\ ptt_on_stop = "on_stop"
    /\ ptt_is_pressed = FALSE
    /\ ptt_last = NoTriggerEvent
    /\ ptt_missed = FALSE
    /\ threads = << >>
    /\ ctl_state = STATE_IDLE
    /\ tray_icon = "icon"
    /\ tray_state = STATE_IDLE
    /\ tray_image = tray_icons[STATE_IDLE]
    /\ tray_menu = get_status_text(STATE_IDLE)
    /\ tray_thread = "thread"
    /\ tray_redraw = FALSE
    /\ win_root = "tk"
    /\ win_canvas = "canvas"
    /\ win_state = STATE_IDLE
    /\ win_after = << >>
    /\ win_visual = STATE_IDLE
    /\ win_drawn = Callback("_setup_idle_state", STATE_IDLE,
                            "_create_window", STATE_IDLE, None)
    /\ win_thread = "thread"
    /\ win_ready = TRUE
    /\ win_start_pc = "ready"
    /\ win_ui_pc = "loop"
    /\ win_timers = << >>
    /\ win_tk_local = << >>
    /\ win_callers = [c \in Callers |-> NotCalling]

\* the keys of a push-to-talk session: the trigger, in every encoding the
\* keyboard reports it in, and Escape
AppKeys ==
    {"esc"} \cup (IF trigger_key = "alt_r" THEN RightAltCodes ELSE {trigger_key})

\* both listeners receive the key events; the callbacks run on their
\* threads; the pipeline completes; the Tk loop runs
NextApp ==
    \/ \E key \in AppKeys : HK_on_press(key)
    \/ \E key \in AppKeys : HK_on_release(key)
    \/ \E key \in AppKeys : PTT_on_press(key)
    \/ \E key \in AppKeys : PTT_on_release(key)
    \/ \E i \in 1..MaxThreads : Thread_run(i)
    \/ \E i \in 1..MaxThreads : App_callback(i)
    \/ App_pipeline_done
    \/ Win_update

SpecApp == InitApp /\ [][NextApp]_vars

\* ------------------------------------------------------------------------
\* Key events against running callbacks: both managers are listening with
\* their callbacks registered, F9 is the trigger, and the callback threads
\* start and return (or never do) at their own pace.
\* ------------------------------------------------------------------------

InitHandlers == InitApp /\ trigger_key = "f9"

NextHandlers ==
    \/ \E key \in AppKeys : HK_on_press(key)
    \/ \E key \in AppKeys : HK_on_release(key)
    \/ \E key \in AppKeys : PTT_on_press(key)
    \/ \E key \in AppKeys : PTT_on_release(key)
    \/ \E i \in 1..MaxThreads : Thread_run(i)
    \/ \E i \in 1..MaxThreads : Thread_return(i)

SpecHandlers == InitHandlers /\ [][NextHandlers]_vars

\* ------------------------------------------------------------------------
\* The toggle scenario: a HotkeyManager is configured and started, then
\* three keys of the ctrl/shift/space family go down, then three go up.
\* ------------------------------------------------------------------------

\* the raw keys of the scenario: both variants of ctrl and shift, and space
ComboKeys == {"ctrl_l", "ctrl_r", "shift", "shift_r", "space"}

\* number of keys of the toggle combo
ComboSize == Cardinality(hotkeys[1].combo)

InitCombo ==
    /\ HK_init
    /\ hk_tracing = TRUE
    /\ PTT_init("f9")
    /\ threads = << >>
    /\ UI_init

NextCombo ==
    \/ \E action \in ActionNames :
          hk_trace = << >> /\ HK_register_callback(action)
    \/ hk_trace = << >> /\ HK_start
    \/ \E key \in ComboKeys :
          Len(hk_trace) < ComboSize /\ HK_on_press(key)
    \/ \E key \in ComboKeys :
          /\ Len(hk_trace) >= ComboSize
          /\ Len(hk_trace) < 2 * ComboSize
          /\ HK_on_release(key)

SpecCombo == InitCombo /\ [][NextCombo]_vars

\* ------------------------------------------------------------------------
\* The surfaces on their own: threads call start, stop, set_state and
\* notify of a TrayIcon and of a StatusWindow in any order, with any
\* argument, while the window's thread creates the window and runs its loop.
\* ------------------------------------------------------------------------

\* the arguments set_state is called with: the three states and another string
StateArgs == States \cup {"paused"}

\* the callbacks the Tk loop has not finished with
Pending == Len(win_after) + Len(win_timers) + Len(win_tk_local)

InitSurfaces ==
    /\ HK_init
    /\ hk_tracing = FALSE
    /\ PTT_init("f9")
    /\ threads = << >>
    /\ UI_init

\* the Tk loop and the thread that runs it
NextTk ==
    \/ Win_create_root
    \/ Win_create_fail
    \/ Win_create_canvas
    \/ Win_create_ready
    \/ Win_update
    \/ Win_show
    \/ Win_delay_elapsed
    \/ Win_restore_read
    \/ Win_restore_set_state

NextSurfaces ==
    \/ \E state \in StateArgs : Tray_set_state_call(state)
    \/ Tray_start_call
    \/ Tray_stop_call
    \/ \E state \in StateArgs : Pending < MaxAfter /\ Win_set_state_call(state)
    \/ Pending < MaxAfter /\ Win_notify_call
    \/ Win_start_call
    \/ Win_start_return
    \/ NextTk

SpecSurfaces == InitSurfaces /\ [][NextSurfaces]_vars

\* ------------------------------------------------------------------------
\* The window on its own, with the guarantee of Event.wait(timeout=5): a
\* start() that is waiting for _ready does return.
\* ------------------------------------------------------------------------

NextWindow ==
    \/ \E state \in StateArgs : Pending < MaxAfter /\ Win_set_state_call(state)
    \/ Pending < MaxAfter /\ Win_notify_call
    \/ Win_start_call
    \/ Win_start_return
    \/ NextTk

SpecWindowFair ==
    InitSurfaces /\ [][NextWindow]_vars /\ WF_vars(Win_start_return)

\* ------------------------------------------------------------------------
\* Concurrent callers of StatusWindow.set_state: the window is started, and
\* two threads each run set_state statement by statement, in any
\* interleaving with each other and with the Tk loop.
\* ------------------------------------------------------------------------

\* the callers that have written _state and not yet scheduled update()
Writing == {c \in Callers : win_callers[c].pc = "written"}

NextWindowRace ==
    \/ \E c \in Callers, state \in States :
          /\ Pending + Cardinality(Writing) < MaxAfter
          /\ Win_set_state_write(c, state)
    \/ \E c \in Callers : Win_set_state_schedule(c)
    \/ Win_start_call
    \/ Win_start_return
    \/ Win_create_root
    \/ Win_create_fail
    \/ Win_create_canvas
    \/ Win_create_ready
    \/ Win_update

SpecWindowRace == InitSurfaces /\ [][NextWindowRace]_vars

\* ------------------------------------------------------------------------
\* Lifecycle: start() and stop() of the two key managers, the tray icon and
\* the status window are called in any order, while the window's thread
\* creates the window, runs its loop and destroys it.
\* ------------------------------------------------------------------------

NextLifecycle ==
    \/ HK_start
    \/ HK_stop
    \/ PTT_start
    \/ PTT_stop
    \/ Tray_start_call
    \/ Tray_stop_call
    \/ Win_start_call
    \/ Win_start_return
    \/ Pending < MaxAfter /\ Win_stop_call
    \/ Win_create_root
    \/ Win_create_fail
    \/ Win_create_canvas
    \/ Win_create_ready
    \/ Win_destroy

SpecLifecycle == InitSurfaces /\ [][NextLifecycle]_vars

\* ------------------------------------------------------------------------
\* Recorded key traffic: a HotkeyManager is configured, then started and
\* stopped at will, while a keyboard whose keys go down and up in matching
\* pairs is typed on.  Every event handled, and every stop(), is recorded.
\* ------------------------------------------------------------------------

\* the raw keys typed: both ctrl keys, shift, space and Escape
TraceKeys == {"ctrl_l", "ctrl_r", "shift", "space", "esc"}

\* the raw keys that are down at the end of a trace
PhysicallyHeld(trace) ==
    {k \in Keys :
        \E i \in 1..Len(trace) :
            /\ trace[i] = << "down", k >>
            /\ \A j \in (i + 1)..Len(trace) : trace[j] # << "up", k >>}

InitTrace ==
    /\ HK_init
    /\ hk_tracing = TRUE
    /\ PTT_init("f9")
    /\ threads = << >>
    /\ UI_init

NextTrace ==
    \/ \E action \in ActionNames :
          hk_trace = << >> /\ HK_register_callback(action)
    \/ HK_start
    \/ Len(hk_trace) < MaxTrace /\ HK_stop
    \/ \E key \in TraceKeys :
          /\ Len(hk_trace) < MaxTrace
          /\ key \notin PhysicallyHeld(hk_trace)
          /\ HK_on_press(key)
    \/ \E key \in TraceKeys :
          /\ Len(hk_trace) < MaxTrace
          /\ key \in PhysicallyHeld(hk_trace)
          /\ HK_on_release(key)

SpecTrace == InitTrace /\ [][NextTrace]_vars

\* ------------------------------------------------------------------------
\* Two HotkeyManagers: one handles the key events of a keyboard as they
\* come, and the other, holding the same callbacks, is fed the recorded
\* events at its own pace.
\* ------------------------------------------------------------------------

\* the raw keys typed: the right ctrl, shift, space and Escape
PairKeys == {"ctrl_r", "shift", "space", "esc"}

NextPair ==
    \/ \E action \in ActionNames :
          hk_trace = << >> /\ HK_register_callback(action)
    \/ HK_start
    \/ Len(hk_trace) < MaxTrace /\ HK_stop
    \/ \E key \in PairKeys :
          /\ Len(hk_trace) < MaxTrace
          /\ key \notin PhysicallyHeld(hk_trace)
          /\ HK_on_press(key)
    \/ \E key \in PairKeys :
          /\ Len(hk_trace) < MaxTrace
          /\ key \in PhysicallyHeld(hk_trace)
          /\ HK_on_release(key)
    \/ HK2_feed

SpecPair == InitTrace /\ [][NextPair]_vars

\* ------------------------------------------------------------------------
\* Properties of PushToTalkManager (SpecPushToTalk)
\* ------------------------------------------------------------------------

\* the state of PushToTalkManager a key handler may change
ptt_effect == << ptt_is_pressed, threads, ptt_missed >>

\* C1: a trigger key-down that arrives while the trigger is recorded as
\* pressed starts no on_start thread and leaves the manager unchanged; over
\* all steps, an on_start thread is started exactly on a step that takes
\* _is_pressed from false to true (one thread per edge, when on_start is
\* registered).
C1_RepeatedPressIsNoOp ==
    [][ /\ \A key \in Keys :
              (PTT_on_press(key) /\ is_trigger_key(key) /\ ptt_is_pressed)
                  => UNCHANGED ptt_effect
        /\ CountOf(threads', "on_start") - CountOf(threads, "on_start")
              = IF ~ptt_is_pressed /\ ptt_is_pressed' /\ ptt_on_start # None
                THEN 1 ELSE 0
      ]_vars

\* C1 witness: the trigger went down a second time while held, and one
\* on_start thread exists
C1_Witness ==
    /\ ptt_last.kind = "down"
    /\ is_trigger_key(ptt_last.key)
    /\ ptt_last.was_pressed
    /\ ptt_is_pressed
    /\ CountOf(threads, "on_start") = 1

\* the threads started for on_start and on_stop alternate, on_start first
Alternates(ths) ==
    \A i \in 1..Len(ths) :
        ths[i].target = IF i % 2 = 1 THEN "on_start" ELSE "on_stop"

\* C2: a trigger key-up that arrives while the trigger is not recorded as
\* pressed changes nothing, and in every reachable state of a manager whose
\* callbacks were registered before the trigger was first used the on_start
\* and on_stop dispatches alternate, on_start first:
\* count(on_stop) <= count(on_start) <= count(on_stop) + 1.
C2_StartStopAlternate ==
    /\ [][ \A key \in Keys :
              (PTT_on_release(key) /\ ~ptt_is_pressed) => UNCHANGED ptt_effect
         ]_vars
    /\ [](~ptt_missed =>
            /\ Alternates(threads)
            /\ CountOf(threads, "on_stop") <= CountOf(threads, "on_start")
            /\ CountOf(threads, "on_start") <= CountOf(threads, "on_stop") + 1)

\* C2 witness: after a complete press/release, a second trigger key-up
\* arrived and was ignored
C2_Witness ==
    /\ ptt_last.kind = "up"
    /\ is_trigger_key(ptt_last.key)
    /\ ~ptt_last.was_pressed
    /\ ~ptt_missed
    /\ CountOf(threads, "on_start") = 1
    /\ CountOf(threads, "on_stop") = 1

\* the index of the on_start thread that opened the session thread j
\* belongs to (0 when no on_start was dispatched before j)
SessionStart(ths, j) ==
    LET starts == {i \in 1..j : ths[i].target = "on_start"}
    IN  IF starts = {} THEN 0 ELSE CHOOSE i \in starts : \A k \in starts : k <= i

\* C5: in every reachable state, an on_stop callback that has begun to run
\* belongs to a session whose on_start callback has begun to run before it:
\* no on_stop thread is running or done while the on_start thread of its
\* session is still only spawned.
C5_StopNeverBeforeStart ==
    ~ptt_missed =>
        \A j \in 1..Len(threads) :
            (threads[j].target = "on_stop" /\ threads[j].st # "spawned")
                => /\ SessionStart(threads, j) # 0
                   /\ threads[SessionStart(threads, j)].st # "spawned"

\* ------------------------------------------------------------------------
\* Properties of HotkeyManager (SpecHotkey)
\* ------------------------------------------------------------------------

\* the canonical keys of Ctrl+Shift+Space
ToggleCombo == {"ctrl_l", "shift", "space"}

\* every key of some multi-key combo registered for toggle_recording is held
ToggleHeld(current_keys) ==
    \E i \in 1..Len(hotkeys) :
        /\ hotkeys[i].action = "toggle_recording"
        /\ Cardinality(hotkeys[i].combo) > 1
        /\ hotkeys[i].combo \subseteq current_keys

\* C3: over all steps, the toggle_recording action of the multi-key combo is
\* fired exactly once on a step that takes PressedKeySet from "not all combo
\* keys held" to "all combo keys held", and on no other step: not by a
\* key-down that arrives while the combo is already fully held.
C3_ComboFiresOncePerEdge ==
    [][ "toggle_recording" \in hk_callbacks =>
          CountOf(threads', "toggle_recording")
            - CountOf(threads, "toggle_recording")
              = IF ~ToggleHeld(hk_current_keys) /\ ToggleHeld(hk_current_keys')
                THEN 1 ELSE 0
      ]_vars

\* C6 as claimed: on a key-down, every registered combo whose keys are all
\* held after the insert, and whose action has a callback, has its action
\* fired by that key-down.
C6_EveryMatchingComboFires ==
    [][ \A key \in HotkeyKeys : HK_on_press(key) =>
          \A i \in 1..Len(hotkeys) :
              (/\ hotkeys[i].combo \subseteq hk_current_keys'
               /\ hotkeys[i].action \in hk_callbacks)
                 => \E j \in 1..(Len(threads') - Len(threads)) :
                        NewTargets(threads, threads')[j] = hotkeys[i].action
      ]_vars

\* C6 as amended: a key-down fires at most one action.  It fires
\* toggle_recording exactly when ctrl, shift and space are all held after
\* the insert and that callback is registered; it fires cancel_recording
\* exactly when Escape is held after the insert, ctrl, shift and space are
\* not all held, and that callback is registered.
C6_FirstMatchingComboFires ==
    [][ \A key \in HotkeyKeys : HK_on_press(key) =>
          LET new == NewTargets(threads, threads')
              toggle_held == ToggleCombo \subseteq hk_current_keys'
              esc_held == "esc" \in hk_current_keys'
          IN  /\ Len(new) <= 1
              /\ (new = << "toggle_recording" >>)
                    <=> (toggle_held /\ "toggle_recording" \in hk_callbacks)
              /\ (new = << "cancel_recording" >>)
                    <=> (/\ esc_held
                         /\ ~toggle_held
                         /\ "cancel_recording" \in hk_callbacks)
      ]_vars

\* C6 witness: Escape went down while Ctrl+Shift+Space was held, with both
\* callbacks registered, and only toggle_recording was fired
C6_Witness ==
    /\ hk_last.kind = "down"
    /\ hk_last.key = "esc"
    /\ ToggleCombo \subseteq hk_current_keys
    /\ hk_callbacks = ActionNames
    /\ hk_last.fired = << "toggle_recording" >>

\* the canonical key the normalizer is documented to return
Canonical(key) ==
    CASE key = "ctrl_r"  -> "ctrl_l"
      [] key = "alt_r"   -> "alt_l"
      [] key = "shift_r" -> "shift"
      [] OTHER           -> key

\* C7: for every key event handled, the normalized key is ctrl_l for
\* ctrl_r, alt_l for alt_r, shift for shift_r and the key itself for every
\* other key, and normalizing the result again returns it unchanged.
C7_NormalizeKey ==
    hk_last.kind # "none" =>
        /\ hk_last.norm = Canonical(hk_last.key)
        /\ normalize_key(hk_last.norm) = hk_last.norm

\* C7 witness: a right shift event was normalized to shift
C7_Witness ==
    /\ hk_last.kind = "down"
    /\ hk_last.key = "shift_r"
    /\ hk_last.norm = "shift"
    /\ "shift" \in hk_current_keys

\* ------------------------------------------------------------------------
\* Properties of the toggle scenario (SpecCombo)
\* ------------------------------------------------------------------------

\* the physical key a raw key of the scenario is a variant of
PhysicalKey(key) ==
    CASE key \in {"ctrl_l", "ctrl_r"}  -> "ctrl"
      [] key \in {"shift", "shift_r"}  -> "shift"
      [] OTHER                         -> key

\* the physical keys of events from..to of the recorded trace
PhysicalKeys(from, to) ==
    {PhysicalKey(hk_trace[i][2]) : i \in from..to}

\* the first ComboSize events pressed ctrl, shift and space, in some order
\* and in some variant
ComboPressed ==
    /\ Len(hk_trace) >= ComboSize
    /\ PhysicalKeys(1, ComboSize) = {"ctrl", "shift", "space"}

\* C9: with toggle_recording registered and PressedKeySet empty, no toggle
\* is fired before the third key-down; once ctrl, shift and space (either
\* variant, any order) have gone down, exactly one toggle_recording has
\* been fired; and once the same three keys have gone up again,
\* PressedKeySet is empty.
C9_ComboScenario ==
    (hk_tracing /\ "toggle_recording" \in hk_callbacks) =>
        /\ Len(hk_trace) < ComboSize
              => CountOf(threads, "toggle_recording") = 0
        /\ ComboPressed => CountOf(threads, "toggle_recording") = 1
        /\ (/\ ComboPressed
            /\ Len(hk_trace) = 2 * ComboSize
            /\ PhysicalKeys(ComboSize + 1, 2 * ComboSize)
                  = {"ctrl", "shift", "space"})
              => hk_current_keys = {}

\* C9 witness: right ctrl, right shift and space went down and one toggle
\* was fired, then the three went up and PressedKeySet is empty
C9_Witness ==
    /\ "toggle_recording" \in hk_callbacks
    /\ ComboPressed
    /\ Len(hk_trace) = 2 * ComboSize
    /\ {hk_trace[i][2] : i \in 1..ComboSize} = {"ctrl_r", "shift_r", "space"}
    /\ PhysicalKeys(ComboSize + 1, 2 * ComboSize) = {"ctrl", "shift", "space"}
    /\ CountOf(threads, "toggle_recording") = 1
    /\ hk_current_keys = {}

\* ------------------------------------------------------------------------
\* Properties of the running application (SpecApp)
\* ------------------------------------------------------------------------

\* C4: in every reachable state, no recording session has both exits: an
\* on_stop is never dispatched for a session (the span opened by the last
\* on_start dispatch before it) for which cancel_recording was already
\* dispatched.
C4_StopAndCancelExclusive ==
    \A k \in 1..Len(threads) :
        threads[k].target = "on_stop" =>
            ~\E j \in 1..k :
                /\ threads[j].target = "cancel_recording"
                /\ SessionStart(threads, k) # 0
                /\ SessionStart(threads, k) < j

\* C8: right-alt is one key under all of its raw encodings.  When two
\* right-alt key-downs arrive in succession (in any two encodings), the
\* second starts no on_start thread in a PushToTalkManager whose trigger is
\* alt_r and adds no entry to HotkeyManager's PressedKeySet; and a key-up in
\* any encoding releases the key: it clears _is_pressed, and it removes the
\* entry the preceding right-alt key-down made.
C8_RightAltIsOneKey ==
    [][ \A key \in RightAltCodes :
          /\ (/\ PTT_on_press(key)
              /\ trigger_key = "alt_r"
              /\ ptt_last.kind = "down"
              /\ ptt_last.key \in RightAltCodes)
                => UNCHANGED ptt_effect
          /\ (PTT_on_release(key) /\ trigger_key = "alt_r")
                => ~ptt_is_pressed'
          /\ (/\ HK_on_press(key)
              /\ hk_last.kind = "down"
              /\ hk_last.key \in RightAltCodes
              /\ hk_last.norm \in hk_current_keys)
                => hk_current_keys' = hk_current_keys
          /\ (/\ HK_on_release(key)
              /\ hk_last.kind = "down"
              /\ hk_last.key \in RightAltCodes)
                => hk_last.norm \notin hk_current_keys'
      ]_vars

\* the transitions of the recording state machine
LifecycleEdges ==
    { << STATE_IDLE, STATE_RECORDING >>,
      << STATE_RECORDING, STATE_PROCESSING >>,
      << STATE_PROCESSING, STATE_IDLE >>,
      << STATE_RECORDING, STATE_IDLE >> }

\* every callback thread started so far has finished
AllCallbacksDone ==
    \A i \in 1..Len(threads) : threads[i].st = "done"

\* C10: the recording state changes only along Idle -> Recording ->
\* Processing -> Idle or Recording -> Idle; a trigger-press dispatches
\* on_start once and a trigger-release dispatches on_stop once; and the
\* release ends the recording: once the trigger is up and the callbacks
\* dispatched for its press and release have run, the state is Processing
\* or Idle, not Recording.
C10_Lifecycle ==
    /\ [][ctl_state' # ctl_state
              => << ctl_state, ctl_state' >> \in LifecycleEdges]_vars
    /\ [][ /\ (~ptt_is_pressed /\ ptt_is_pressed')
                => NewTargets(threads, threads') = << "on_start" >>
           /\ (ptt_is_pressed /\ ~ptt_is_pressed')
                => NewTargets(threads, threads') = << "on_stop" >>
         ]_vars
    /\ []((~ptt_is_pressed /\ AllCallbacksDone)
              => ctl_state # STATE_RECORDING)

\* C12: a lost trigger key-up is recoverable: stop() followed by start()
\* re-syncs the manager to not-pressed, so the step that starts listening
\* leaves the trigger recorded as not pressed
C12_RestartResyncs ==
    [][(ptt_listener = None /\ ptt_listener' # None) => ~ptt_is_pressed']_vars

\* the raw keys that are the trigger: the configured key and, for a
\* right-alt trigger only, its alt_gr and vk = 165 encodings
TriggerEncodings ==
    IF trigger_key = "alt_r" THEN RightAltCodes ELSE {trigger_key}

\* C23: PushToTalkManager ignores keys that are not the trigger: their
\* key-down and key-up leave _is_pressed unchanged and dispatch nothing;
\* alt_gr and vk = 165 are taken as the trigger only when it is alt_r
C23_NonTriggerKeysIgnored ==
    /\ [](\A key \in Keys : is_trigger_key(key) <=> key \in TriggerEncodings)
    /\ [][\A key \in Keys \ TriggerEncodings :
             (PTT_on_press(key) \/ PTT_on_release(key)) =>
                 (ptt_is_pressed' = ptt_is_pressed /\ threads' = threads)
         ]_vars

\* C23 witness: with F9 as the trigger, held, a key-down of alt_gr has been
\* handled: the trigger is still recorded as pressed and only the on_start
\* of the F9 key-down was dispatched
C23_Witness ==
    /\ trigger_key = "f9"
    /\ ptt_listener # None
    /\ ptt_on_start # None
    /\ ptt_last = [kind |-> "down", key |-> "alt_gr", was_pressed |-> TRUE]
    /\ ptt_is_pressed
    /\ Len(threads) = 1

\* ------------------------------------------------------------------------
\* Properties of recorded key traffic (SpecTrace)
\* ------------------------------------------------------------------------

\* the index of the last stop() recorded in a trace (0 when there is none)
LastStop(trace) ==
    LET stops == {i \in 1..Len(trace) : trace[i][1] = "stop"}
    IN  IF stops = {} THEN 0 ELSE CHOOSE i \in stops : \A j \in stops : j <= i

\* the canonical keys that went down after the last stop() of a trace
PressedSinceStop(trace) ==
    {Canonical(trace[i][2]) :
        i \in {j \in (LastStop(trace) + 1)..Len(trace) : trace[j][1] = "down"}}

\* C11: stop() leaves PressedKeySet empty whatever keys were held, a
\* stopped manager holds no key, and a key-down fires an action only if
\* every key of a combo of that action went down after the last stop().
C11_StopClearsPressedKeys ==
    /\ [](hk_listener = None => hk_current_keys = {})
    /\ [][ /\ HK_stop => hk_current_keys' = {}
           /\ \A key \in TraceKeys :
                 (HK_on_press(key) /\ Len(threads') > Len(threads)) =>
                     \E i \in 1..Len(hotkeys) :
                         /\ hotkeys[i].action = threads'[Len(threads')].target
                         /\ {Canonical(k) : k \in hotkeys[i].combo}
                               \subseteq PressedSinceStop(hk_trace')
         ]_vars

\* C11 witness: ctrl and shift were down when stop() was called; after
\* start(), space went down while both were still held, and no toggle fired
C11_Witness ==
    /\ "toggle_recording" \in hk_callbacks
    /\ LastStop(hk_trace) > 0
    /\ hk_listener # None
    /\ {"ctrl_l", "shift"} \subseteq
          PhysicallyHeld(SubSeq(hk_trace, 1, LastStop(hk_trace)))
    /\ {"ctrl_l", "shift", "space"} \subseteq PhysicallyHeld(hk_trace)
    /\ hk_last.key = "space"
    /\ hk_current_keys = {"space"}
    /\ CountOf(threads, "toggle_recording") = 0

\* C18: while every key event is delivered to the manager, PressedKeySet
\* holds a canonical key exactly when some raw key that normalises to it is
\* physically held
C18_PressedKeysAreHeldKeys ==
    LastStop(hk_trace) = 0 =>
        hk_current_keys = {Canonical(k) : k \in PhysicallyHeld(hk_trace)}

\* C22: a key-up never fires an action: it removes exactly the normalized
\* key from PressedKeySet (nothing when it is absent) and leaves every other
\* key, the callback table and the listener as they were (the combo table
\* is never written)
C22_ReleaseOnlyRemovesKey ==
    [][\A key \in TraceKeys :
          HK_on_release(key) =>
              /\ threads' = threads
              /\ hk_current_keys' = hk_current_keys \ {Canonical(key)}
              /\ Canonical(key) \notin hk_current_keys =>
                    hk_current_keys' = hk_current_keys
              /\ UNCHANGED << hk_callbacks, hk_listener, hk_running >>
      ]_vars

\* C22 witness: with shift and the right ctrl held, the key-up of the right
\* ctrl has removed ctrl_l, left shift, and fired nothing
C22_Witness ==
    /\ hk_trace = << << "down", "shift" >>, << "down", "ctrl_r" >>,
                     << "up", "ctrl_r" >> >>
    /\ hk_current_keys = {"shift"}
    /\ hk_callbacks = ActionNames
    /\ threads = << >>

\* ------------------------------------------------------------------------
\* Key handlers and running callbacks (SpecHandlers)
\* ------------------------------------------------------------------------

\* some callback thread has been started and has not returned
CallbackPending == \E i \in 1..Len(threads) : threads[i].st # "done"

\* C13: key handlers never wait for a callback: while an earlier on_start,
\* on_stop or cancel callback has not returned, every key-down and key-up
\* can still be handled by both managers, and handling it applies its state
\* change (trigger pressed / released, key added to / removed from the set)
C13_HandlersNeverWait ==
    /\ [](\A key \in AppKeys :
             (CallbackPending /\ Len(threads) < MaxThreads) =>
                 /\ ENABLED PTT_on_press(key)
                 /\ ENABLED PTT_on_release(key)
                 /\ ENABLED HK_on_press(key)
                 /\ ENABLED HK_on_release(key))
    /\ [][\A key \in AppKeys :
             CallbackPending =>
                 /\ (PTT_on_press(key) /\ is_trigger_key(key))
                       => ptt_is_pressed'
                 /\ (PTT_on_release(key) /\ is_trigger_key(key))
                       => ~ptt_is_pressed'
                 /\ HK_on_press(key)
                       => normalize_key(key) \in hk_current_keys'
                 /\ HK_on_release(key)
                       => normalize_key(key) \notin hk_current_keys'
         ]_vars

\* C13 witness: the on_start callback is running and has not returned, and
\* the trigger key-up that arrived meanwhile was handled: the trigger is
\* recorded as released and on_stop was started
C13_Witness ==
    /\ Len(threads) >= 2
    /\ threads[1].target = "on_start"
    /\ threads[1].st = "running"
    /\ threads[2].target = "on_stop"
    /\ ptt_last.kind = "up"
    /\ ptt_last.was_pressed
    /\ ~ptt_is_pressed

\* ------------------------------------------------------------------------
\* Properties of the surfaces (SpecSurfaces; the window's also SpecWindowFair)
\* ------------------------------------------------------------------------

\* C14: set_state only updates the cached state and schedules the redraw
\* on the surface's own context: the call itself leaves what the surface
\* shows as it was (the canvas items, the tray icon image and the menu)
C14_SetStateOnlySchedules ==
    [][\A state \in StateArgs :
          /\ Win_set_state_call(state) => win_visual' = win_visual
          /\ Tray_set_state_call(state) =>
                (tray_image' = tray_image /\ tray_menu' = tray_menu)
      ]_vars

\* C15: after a notification, once the delay has elapsed, the window shows
\* the visuals of the state that was cached when restore() ran, whatever
\* set_state calls came between notify and that moment: what an update()
\* scheduled by restore() has drawn is that state's visuals
C15_RestoreShowsCurrentState ==
    (win_drawn.by = "restore" /\ win_drawn.cached \in States) =>
        (win_drawn.state = win_drawn.cached /\ win_visual = win_drawn.cached)

\* C15 witness: the state changed between notify and the end of the delay,
\* and the window, restored, shows the later one
C15_Witness ==
    /\ win_drawn.by = "restore"
    /\ win_drawn.cached \in States
    /\ win_drawn.notified \in States
    /\ win_drawn.notified # win_drawn.cached
    /\ win_visual = win_drawn.cached

\* C16: applying a state equal to the cached state is a no-op: a
\* set_state(s) called while s is the cached state leaves the cached state
\* and what is shown as they are and triggers no redraw (the window
\* schedules no update(), the tray does not replace its image and menu)
C16_RedundantSetStateIsNoOp ==
    [][\A state \in States :
          /\ (Win_set_state_call(state) /\ state = win_state) =>
                (win_state' = win_state /\ win_after' = win_after)
          /\ (Tray_set_state_call(state) /\ state = tray_state) =>
                /\ tray_state' = tray_state
                /\ tray_image' = tray_image
                /\ tray_menu' = tray_menu
                /\ ~tray_redraw'
      ]_vars

\* C20: a surface that received set_state(s) before it was started shows
\* s once started: a tray icon that exists shows the image of the cached
\* state, and a window whose loop has nothing left to run shows the
\* visuals of the cached state
C20_StartShowsCachedState ==
    /\ tray_icon # None => tray_image = tray_icons[tray_state]
    /\ ( /\ win_ui_pc = "loop"
         /\ Pending = 0
         /\ win_visual # NOTIFICATION
         /\ win_state \in States ) => win_visual = win_state

\* C21: a surface's cached state is always one of idle, recording and
\* processing: set_state with any other value leaves the cached state and
\* what is shown unchanged, for the tray icon and for the window
C21_CachedStateIsAState ==
    /\ [](tray_state \in States /\ win_state \in States)
    /\ [][\A state \in StateArgs \ States :
             /\ Tray_set_state_call(state) =>
                   UNCHANGED << tray_state, tray_image, tray_menu >>
             /\ Win_set_state_call(state) =>
                   UNCHANGED << win_state, win_visual >>
         ]_vars

\* ------------------------------------------------------------------------
\* Properties of the window on its own (SpecWindowFair)
\* ------------------------------------------------------------------------

\* C17: start() always returns, even when the window's thread never signals
\* readiness; set_state and notify called while the window is not yet
\* created return at once: set_state only caches the state, notify does
\* nothing, and neither schedules anything
C17_StartAlwaysReturns ==
    /\ (win_start_pc = "waiting") ~> (win_start_pc # "waiting")
    /\ [][\A state \in StateArgs :
             /\ (Win_set_state_call(state) /\ win_root = None) =>
                   /\ win_state' = state
                   /\ UNCHANGED << win_after, win_timers, win_visual,
                                   win_start_vars >>
             /\ (Win_notify_call /\ win_root = None) => UNCHANGED win_vars
         ]_vars

\* C17 witness: the window's thread died before signalling readiness,
\* start() has returned all the same, and a set_state('recording') called
\* with no window has cached the state and scheduled nothing
C17_Witness ==
    /\ win_start_pc = "timed out"
    /\ win_ui_pc = "dead"
    /\ ~win_ready
    /\ win_root = None
    /\ win_state = STATE_RECORDING
    /\ win_after = << >>

\* ------------------------------------------------------------------------
\* Properties of concurrent set_state callers (SpecWindowRace)
\* ------------------------------------------------------------------------

\* every set_state call has returned and every scheduled update() has run,
\* the last of them having drawn the canvas
UpdatesHaveRun ==
    /\ win_ui_pc = "loop"
    /\ win_after = << >>
    /\ win_timers = << >>
    /\ win_tk_local = << >>
    /\ Writing = {}
    /\ win_drawn.fn = "update"

\* C19: for every interleaving of set_state calls from different threads,
\* once all scheduled updates have run, the window shows the visuals of
\* the cached state
C19_LastUpdateIsForCachedState ==
    (UpdatesHaveRun /\ win_state \in States) => win_visual = win_state

\* ------------------------------------------------------------------------
\* Properties of the lifecycle (SpecLifecycle)
\* ------------------------------------------------------------------------

\* the thread of _run_loop exists and has not ended
WinLive == win_ui_pc \in {"spawned", "root", "canvas", "loop"}

\* C24: for each component, start() while started creates nothing new, a
\* start() that follows a stop() makes the component live again, and for
\* the two key managers _running is true exactly when a listener exists
C24_StartStopLifecycle ==
    /\ [](hk_running <=> hk_listener # None)
    /\ [](ptt_running <=> ptt_listener # None)
    /\ [][ /\ HK_start =>
                /\ hk_listener' # None
                /\ hk_listener # None => UNCHANGED hk_vars
           /\ PTT_start =>
                /\ ptt_listener' # None
                /\ ptt_listener # None => UNCHANGED ptt_vars
           /\ Tray_start_call =>
                /\ tray_icon' # None
                /\ tray_icon # None => UNCHANGED tray_vars
           /\ Win_start_call =>
                /\ WinLive => UNCHANGED << win_thread, win_ui_pc, win_root,
                                           win_canvas, win_after >>
                /\ win_ui_pc = "exited" => WinLive'
         ]_vars

\* ------------------------------------------------------------------------
\* Properties of two HotkeyManagers (SpecPair)
\* ------------------------------------------------------------------------

\* the actions the first manager has dispatched, in order
Dispatched == [i \in 1..Len(threads) |-> threads[i].target]

====
